---- MODULE Spec2Model ----
(***************************************************************************)
(* SmartAgro (src/app.py): a Flask application with signup / login /       *)
(* logout, a gated diagnose workflow (upload -> classify -> record) and a  *)
(* per-session diagnosis history.                                          *)
(*                                                                         *)
(* The session object of the code is Flask's default session: a signed     *)
(* cookie held by the browser (app.secret_key, line 11; no server-side     *)
(* session store is configured).  A request works on the copy of the       *)
(* session decoded from the cookie it carried, and the response replaces   *)
(* the browser's cookie when the handler modified that copy.  Requests of  *)
(* one browser (two tabs) may be handled concurrently by the server.       *)
(*                                                                         *)
(* Strings that the code parses (form fields, filenames) are sequences of  *)
(* one-character strings.                                                  *)
(***************************************************************************)
EXTENDS Integers, Sequences, FiniteSets, Bags, TLC

\* ------------------------------------------------------------------ bounds
\* Requests of the browser that the server handles at the same time.
MaxInFlight == 2
\* Longest history a diagnose request is started on, plus one.
MaxHistory == 2
\* Longest prefix of the generated upload names.
MaxPrefix == 3

\* ------------------------------------------------------------ text helpers
Whitespace == {" "}

RECURSIVE lstrip(_, _)
lstrip(s, chars) ==
    IF s # <<>> /\ Head(s) \in chars THEN lstrip(Tail(s), chars) ELSE s

RECURSIVE rstrip(_, _)
rstrip(s, chars) ==
    IF s # <<>> /\ s[Len(s)] \in chars
    THEN rstrip(SubSeq(s, 1, Len(s) - 1), chars)
    ELSE s

\* str.strip(chars): leading and trailing characters of chars removed.
strip_chars(s, chars) == rstrip(lstrip(s, chars), chars)

\* str.strip(): leading and trailing whitespace removed.
strip(s) == strip_chars(s, Whitespace)

UpperCase ==
    << "A", "B", "C", "D", "E", "F", "G", "H", "I", "J", "K", "L", "M",
       "N", "O", "P", "Q", "R", "S", "T", "U", "V", "W", "X", "Y", "Z" >>

LowerCase ==
    << "a", "b", "c", "d", "e", "f", "g", "h", "i", "j", "k", "l", "m",
       "n", "o", "p", "q", "r", "s", "t", "u", "v", "w", "x", "y", "z" >>

Lower(c) ==
    IF \E i \in 1..Len(UpperCase) : UpperCase[i] = c
    THEN LowerCase[CHOOSE i \in 1..Len(UpperCase) : UpperCase[i] = c]
    ELSE c

\* str.lower()
lower(s) == [i \in 1..Len(s) |-> Lower(s[i])]

\* Index of the last occurrence of c in s, 0 when there is none.
RECURSIVE rfind(_, _)
rfind(s, c) ==
    IF s = <<>> THEN 0
    ELSE IF s[Len(s)] = c THEN Len(s)
    ELSE rfind(SubSeq(s, 1, Len(s) - 1), c)

Contains(s, c) == \E i \in 1..Len(s) : s[i] = c

\* filename.rsplit('.', 1)[1], for a filename that contains a dot.
rsplit_ext(s) == SubSeq(s, rfind(s, ".") + 1, Len(s))

\* ------------------------------------------------------------------ config
ALLOWED_EXTENSIONS ==
    { <<"p", "n", "g">>, <<"j", "p", "g">>, <<"j", "p", "e", "g">> }

class_names == <<"Healthy", "Mosaic", "RedRot", "Rust", "Yellow">>

\* The python value None where the code holds a string or None.
None == "None"
\* The python value None where the code holds a number or None.
NoneNum == -1
\* The python value None where the code holds a URL or None.
NoneUrl == <<>>

\* ---------------------------------------------------------------- the utils
\* Faulty variant: the extension is compared as it is written.
allowed_file_cased(filename) ==
    Contains(filename, ".") /\ rsplit_ext(filename) \in ALLOWED_EXTENSIONS

\* allowed_file(filename)
allowed_file(filename) ==
    Contains(filename, ".") /\ lower(rsplit_ext(filename)) \in ALLOWED_EXTENSIONS

\* Characters outside ASCII that have no ASCII decomposition; the one-character
\* strings of the model are ASCII, and this token stands for such a character.
NonAscii == {"U+65E5"}

Letters ==
    { LowerCase[i] : i \in 1..Len(LowerCase) } \cup { UpperCase[i] : i \in 1..Len(UpperCase) }

Digits == { "0", "1", "2", "3", "4", "5", "6", "7", "8", "9" }

\* The characters _filename_ascii_strip_re keeps: [A-Za-z0-9_.-]
IsSafeChar(c) == c \in Letters \cup Digits \cup {"_", ".", "-"}

IsAscii(c) == c \notin NonAscii

\* "_".join(s.split()): runs of whitespace become one "_", none at the ends.
RECURSIVE join_words(_)
join_words(s) ==
    IF s = <<>> THEN <<>>
    ELSE IF Head(s) \in Whitespace
         THEN LET rest == lstrip(s, Whitespace)
              IN  IF rest = <<>> THEN <<>> ELSE <<"_">> \o join_words(rest)
         ELSE <<Head(s)>> \o join_words(Tail(s))

\* Faulty variant: the name is used as the client sent it.
secure_filename_raw(filename) == filename

\* werkzeug.utils.secure_filename on a POSIX host (os.sep = "/", no altsep).
secure_filename(filename) ==
    LET ascii    == SelectSeq(filename, IsAscii)
        nosep    == [i \in 1..Len(ascii) |-> IF ascii[i] = "/" THEN " " ELSE ascii[i]]
        joined   == join_words(lstrip(nosep, Whitespace))
        stripped == SelectSeq(joined, IsSafeChar)
    IN  strip_chars(stripped, {".", "_"})

\* ------------------------------------------------------- password hashing
\* bcrypt.hash draws a random salt; the hash embeds the salt and a digest that
\* is a function of salt and password.  The digest is kept as the pair itself.
Salts == {"s1", "s2"}

bcrypt_hash(password, salt) == [salt |-> salt, digest |-> <<salt, password>>]

\* bcrypt.verify(password, hashed): recompute the digest under the hash's salt.
bcrypt_verify(password, hashed) == hashed.digest = <<hashed.salt, password>>

\* ------------------------------------------------------------- classifier
\* Uploaded contents: two readable leaf photos and two files load_img cannot
\* read (not an image; zero bytes).
Images == {"leafA", "leafB"}
Unreadable == {"junk", "empty"}
Contents == Images \cup Unreadable

\* model.predict on the prepared image: one probability per class, in units
\* of 10^-5.  The model is fixed, so the vector is a function of the image.
predict(img) ==
    IF img = "leafA" THEN <<2000, 1000, 5000, 87004, 4996>>
    ELSE <<91236, 3000, 2764, 1500, 1500>>

\* np.max(preds)
np_max(preds) == CHOOSE m \in {preds[i] : i \in 1..Len(preds)} :
                    \A i \in 1..Len(preds) : preds[i] <= m

\* np.argmax(preds): the first index of the maximum.
np_argmax(preds) == CHOOSE i \in 1..Len(preds) :
                       /\ preds[i] = np_max(preds)
                       /\ \A j \in 1..(i - 1) : preds[j] < preds[i]

\* round(float(p) * 100, 2) for p in units of 10^-5, as hundredths of a percent
\* (round half to even).
round2(p) ==
    LET q == p \div 10
        r == p % 10
    IN  IF r < 5 THEN q
        ELSE IF r > 5 THEN q + 1
        ELSE q + (q % 2)

\* url_for('static', filename='uploads/<filename>')
static_url(filename) == <<"static", "uploads", filename>>

\* ------------------------------------------------------------ the session
\* The session dict: the keys "user" and "history" may each be absent.
EmptySession ==
    [hasUser |-> FALSE, user |-> <<>>, hasHistory |-> FALSE, history |-> <<>>]

\* session["user"] = username
session_set_user(s, username) == [s EXCEPT !.hasUser = TRUE, !.user = username]

\* session.setdefault("history", [])
session_setdefault_history(s) ==
    IF s.hasHistory THEN s ELSE [s EXCEPT !.hasHistory = TRUE, !.history = <<>>]

\* session.get("history", [])
session_get_history(s) == IF s.hasHistory THEN s.history ELSE <<>>

\* session["history"] = history
session_set_history(s, history) ==
    [s EXCEPT !.hasHistory = TRUE, !.history = history]

\* session.pop("user", None)
session_pop_user(s) == [s EXCEPT !.hasUser = FALSE, !.user = <<>>]

\* Faulty variant: session.clear(), the user goes with the history.
session_clear(s) == EmptySession

\* session.pop("history", None)
session_pop_history(s) == [s EXCEPT !.hasHistory = FALSE, !.history = <<>>]

\* Faulty variant: the gate lets every session through.
require_login_open(s) == FALSE

\* require_login(): TRUE when it returns the redirect to login.
require_login(s) == ~s.hasUser

\* -------------------------------------------------------------- responses
Redirect(to) == [type |-> "redirect", to |-> to]

RenderForm(template, error) ==
    [type |-> "render", template |-> template, error |-> error]

RenderPage(template) == [type |-> "render", template |-> template]

RenderDiagnose(prediction, confidence, image_url) ==
    [type |-> "render", template |-> "diagnose.html", prediction |-> prediction,
     confidence |-> confidence, image_url |-> image_url]

RenderHistory(history) ==
    [type |-> "render", template |-> "history.html", history |-> history]

\* An exception that leaves the view function: Flask answers 500.
ServerError == [type |-> "error", status |-> 500]

\* ------------------------------------------------------------------ inputs
\* Form fields a client submits as username and as password.
UsernameInputs == { <<>>, <<"a">>, <<" ", "a">>, <<"b">> }
PasswordInputs == { <<>>, <<"p">>, <<"p", " ">>, <<"q">> }

Methods == {"GET", "POST"}

\* Names of uploaded files: empty, accepted, accepted with a path component
\* (sanitized to the same name as the former), upper-case extension, and a
\* disallowed extension.
Filenames ==
    { <<>>,
      <<"a", ".", "j", "p", "g">>,
      <<"/", "a", ".", "j", "p", "g">>,
      <<"b", ".", "P", "N", "G">>,
      <<"a", ".", "e", "x", "e">> }

\* Names built from a prefix of up to MaxPrefix characters (a letter, the
\* dot, the path separator, the blank) and an ending: none, an allowed
\* extension in lower, upper and mixed case, a disallowed one, the extension
\* without its dot, a cut one, one followed by a dot, one with a letter more.
NameChars == { "a", ".", "/", " " }

Prefixes == UNION { [1..n -> NameChars] : n \in 0..MaxPrefix }

Endings ==
    { <<>>,
      <<".", "j", "p", "g">>,
      <<".", "J", "P", "G">>,
      <<".", "P", "n", "g">>,
      <<".", "j", "p", "e", "g">>,
      <<".", "e", "x", "e">>,
      <<"j", "p", "g">>,
      <<".", "j", "p">>,
      <<".", "j", "p", "g", ".">>,
      <<".", "j", "p", "g", "x">> }

\* Names with a backslash, an underscore, a hyphen and a character outside
\* ASCII.
OddNames ==
    { <<".", ".", "\\", "a", ".", "j", "p", "g">>,
      <<"_", "_", ".", "p", "n", "g">>,
      <<"-", "a", ".", "p", "n", "g">>,
      <<"U+65E5", ".", "j", "p", "g">>,
      <<"a", ".", "j", "p", "U+65E5", "g">> }

UploadNames == { p \o e : p \in Prefixes, e \in Endings } \cup OddNames

NamedUploads ==
    { [present |-> TRUE, filename |-> f, content |-> c] :
        f \in UploadNames, c \in {"leafA", "empty"} }

\* request.files.get("leaf_image"): None when the form has no such part.
NoFile == [present |-> FALSE, filename |-> <<>>, content |-> "empty"]

Uploads ==
    {NoFile} \cup
    { [present |-> TRUE, filename |-> f, content |-> c] : f \in Filenames, c \in Contents }

\* bool(file): a FileStorage is truthy when its filename is non-empty.
file_truthy(file) == file.present /\ file.filename # <<>>

Diseases == {"Rust"}

\* ------------------------------------------------------------------- state
VARIABLES
    users,      \* the users table: records in insertion order
    cookie,     \* the session held in the browser's signed cookie
    files,      \* the upload folder: stored name -> content
    reqs,       \* the requests being handled: a bag of request records
    batch,      \* history: the requests since no request was in flight
    fresh,      \* history: the diagnoses made one by one since a fresh login
    loggedOut   \* history: a logout that cleared the session completed and no
                \* login succeeded since

vars == <<users, cookie, files, reqs, batch, fresh, loggedOut>>

InFlight == BagToSet(reqs)

Quiescent == reqs = EmptyBag

\* The server takes a new request.
Begin(r) ==
    /\ BagCardinality(reqs) < MaxInFlight
    /\ reqs' = reqs (+) SetToBag({r})

\* A request in flight moves on.
Continue(r, r2) == reqs' = (reqs (-) SetToBag({r})) (+) SetToBag({r2})

\* A request in flight is answered.
End(r) == reqs' = reqs (-) SetToBag({r})

\* The handler of a request has returned: what is left of the request is its
\* response and, when the handler modified the session, the cookie that
\* save_session attaches to it (a sequence of none or one session).
Answer(kind, sess, modified, resp) ==
    [kind |-> kind, pc |-> "respond", resp |-> resp,
     set_cookie |-> IF modified THEN <<sess>> ELSE <<>>]

ImpureBatch == [pure |-> FALSE, base |-> <<>>, log |-> <<>>, cleared |-> 0]
NotFresh == [ok |-> FALSE, log |-> <<>>, pending |-> <<>>]

Init ==
    /\ users = <<>>
    /\ cookie = EmptySession
    /\ files = <<>>
    /\ reqs = EmptyBag
    /\ batch = ImpureBatch
    /\ fresh = NotFresh
    /\ loggedOut = FALSE

\* ------------------------------------------------------- history variables
\* The batch a request joins when it starts: a new one when nothing is in
\* flight, the current one otherwise.
BatchAtStart ==
    IF Quiescent
    THEN [pure |-> TRUE, base |-> session_get_history(cookie), log |-> <<>>, cleared |-> 0]
    ELSE batch

BatchCleared(b) ==
    IF b.pure /\ b.cleared < 1 THEN [b EXCEPT !.cleared = b.cleared + 1] ELSE ImpureBatch

BatchRecorded(b, record) ==
    IF b.pure /\ Len(b.log) < MaxHistory
    THEN [b EXCEPT !.log = Append(b.log, record)]
    ELSE ImpureBatch

\* A request starting while another is in flight ends the one-by-one run.
FreshAtStart == IF Quiescent THEN fresh ELSE NotFresh

\* What the request of an accepted upload is to record: the sanitized name of
\* the uploaded file and the classification of the uploaded content.
expected_record(file) ==
    [filename |-> secure_filename(file.filename),
     prediction |-> class_names[np_argmax(predict(file.content))],
     confidence |-> round2(np_max(predict(file.content)))]

FreshAccepted(f, file) ==
    IF f.ok THEN [f EXCEPT !.pending = <<expected_record(file)>>] ELSE NotFresh

\* The pending diagnosis ended: recorded, or not.
FreshEnded(f, recorded) ==
    IF f.ok
    THEN [f EXCEPT !.log = IF recorded THEN f.log \o f.pending ELSE f.log,
                   !.pending = <<>>]
    ELSE NotFresh

\* ------------------------------------------------------ the users table
\* SELECT * FROM users WHERE username=?  (all matching rows, in table order)
select_users(table, username) ==
    SelectSeq(table, LAMBDA row : row.username = username)

\* The id AUTOINCREMENT gives the next row (rows are never deleted).
next_id(table) == IF table = <<>> THEN 1 ELSE table[Len(table)].id + 1

\* Faulty variant: the username column without its UNIQUE constraint.
insert_user_unchecked(table, username, password) ==
    [ok |-> TRUE,
     table |-> Append(table, [id |-> next_id(table), username |-> username,
                              password |-> password])]

\* Faulty variant: INSERT OR REPLACE, the row of a registered username is rewritten.
insert_user_replace(table, username, password) ==
    IF select_users(table, username) # <<>>
    THEN [ok |-> FALSE,
          table |-> [k \in 1..Len(table) |->
                        IF table[k].username = username
                        THEN [table[k] EXCEPT !.password = password]
                        ELSE table[k]]]
    ELSE [ok |-> TRUE,
          table |-> Append(table, [id |-> next_id(table), username |-> username,
                                   password |-> password])]

\* INSERT INTO users (username, password) under username TEXT UNIQUE: one
\* atomic statement; ok = FALSE stands for sqlite3.IntegrityError.
insert_user(table, username, password) ==
    IF select_users(table, username) # <<>>
    THEN [ok |-> FALSE, table |-> table]
    ELSE [ok |-> TRUE,
          table |-> Append(table, [id |-> next_id(table), username |-> username,
                                   password |-> password])]

\* Faulty variant: the password is not verified.
credentials_ok_unverified(table, username, password) ==
    select_users(table, username) # <<>>

\* user and bcrypt.verify(password, user["password"]), user being fetchone().
credentials_ok(table, username, password) ==
    LET rows == select_users(table, username)
    IN  rows # <<>> /\ bcrypt_verify(password, rows[1].password)

\* ------------------------------------------------------------------ signup
\* The view never touches the session.
SignupStart(method, username_in, password_in, salt) ==
    /\ LET username == strip(username_in)
           password == strip(password_in)
       IN  Begin(IF method = "GET"
                 THEN Answer("signup", EmptySession, FALSE,
                             RenderForm("signup.html", None))
                 ELSE IF username = <<>> \/ password = <<>>
                 THEN Answer("signup", EmptySession, FALSE,
                             RenderForm("signup.html", "Username and password required"))
                 ELSE [kind |-> "signup", pc |-> "insert", username |-> username,
                       hashed_pw |-> bcrypt_hash(password, salt)])
    /\ batch' = ImpureBatch
    /\ fresh' = FreshAtStart
    /\ UNCHANGED <<users, cookie, files, loggedOut>>

SignupInsert(r) ==
    /\ r.kind = "signup"
    /\ r.pc = "insert"
    /\ LET ins == insert_user(users, r.username, r.hashed_pw)
       IN  /\ users' = ins.table
           /\ Continue(r, Answer("signup", EmptySession, FALSE,
                                 IF ins.ok THEN Redirect("login")
                                 ELSE RenderForm("signup.html",
                                                 "Username already exists")))
    /\ UNCHANGED <<cookie, files, batch, fresh, loggedOut>>

\* ------------------------------------------------------------------- login
LoginStart(method, username_in, password_in) ==
    /\ Begin(IF method = "GET"
             THEN Answer("login", cookie, FALSE, RenderForm("login.html", None))
             ELSE [kind |-> "login", pc |-> "select", sess |-> cookie,
                   form |-> [username |-> username_in, password |-> password_in],
                   username |-> strip(username_in),
                   password |-> strip(password_in)])
    /\ batch' = ImpureBatch
    /\ fresh' = IF method = "GET" THEN FreshAtStart ELSE NotFresh
    /\ UNCHANGED <<users, cookie, files, loggedOut>>

\* session["user"] = username; session.setdefault("history", [])
login_session(s, username) ==
    session_setdefault_history(session_set_user(s, username))

\* Faulty variant: an unknown username gets an error of its own.
LoginCheck_telling(r) ==
    /\ r.kind = "login"
    /\ r.pc = "select"
    /\ Continue(r, IF credentials_ok(users, r.username, r.password)
                   THEN Answer("login", login_session(r.sess, r.username), TRUE,
                               Redirect("index"))
                   ELSE IF select_users(users, r.username) = <<>>
                   THEN Answer("login", r.sess, FALSE,
                               RenderForm("login.html", "Unknown user"))
                   ELSE Answer("login", r.sess, FALSE,
                               RenderForm("login.html", "Invalid credentials")))
    /\ UNCHANGED <<users, cookie, files, batch, fresh, loggedOut>>

LoginCheck(r) ==
    /\ r.kind = "login"
    /\ r.pc = "select"
    /\ Continue(r, IF credentials_ok(users, r.username, r.password)
                   THEN Answer("login", login_session(r.sess, r.username), TRUE,
                               Redirect("index"))
                   ELSE Answer("login", r.sess, FALSE,
                               RenderForm("login.html", "Invalid credentials")))
    /\ UNCHANGED <<users, cookie, files, batch, fresh, loggedOut>>

\* ------------------------------------------------------------------ logout
\* Faulty variant: only the user is removed.
logout_session_user(s) == session_pop_user(s)

\* session.pop("user", None); session.pop("history", None): the session is
\* marked modified when a key was there to remove.
logout_session(s) == session_pop_history(session_pop_user(s))

LogoutStart ==
    /\ Begin(Answer("logout", logout_session(cookie),
                    cookie.hasUser \/ cookie.hasHistory, Redirect("login")))
    /\ batch' = ImpureBatch
    /\ fresh' = NotFresh
    /\ UNCHANGED <<users, cookie, files, loggedOut>>

\* ------------------------------------------------------- the gated pages
\* index, info and history only read the session.
IndexStart ==
    /\ Begin(Answer("index", cookie, FALSE,
                    IF ~cookie.hasUser THEN Redirect("login")
                    ELSE RenderPage("index.html")))
    /\ batch' = ImpureBatch
    /\ fresh' = FreshAtStart
    /\ UNCHANGED <<users, cookie, files, loggedOut>>

InfoStart(disease) ==
    /\ Begin(Answer("info", cookie, FALSE,
                    IF require_login(cookie) THEN Redirect("login")
                    ELSE [type |-> "render", template |-> "info.html",
                          disease |-> disease]))
    /\ batch' = ImpureBatch
    /\ fresh' = FreshAtStart
    /\ UNCHANGED <<users, cookie, files, loggedOut>>

HistoryStart ==
    /\ Begin(Answer("history", cookie, FALSE,
                    IF require_login(cookie) THEN Redirect("login")
                    ELSE RenderHistory(session_get_history(cookie))))
    /\ batch' = ImpureBatch
    /\ fresh' = FreshAtStart
    /\ UNCHANGED <<users, cookie, files, loggedOut>>

\* about and ping are public and never touch the session.
PublicStart(kind) ==
    /\ Begin(Answer(kind, EmptySession, FALSE,
                    IF kind = "about" THEN RenderPage("about.html")
                    ELSE [type |-> "text", body |-> "pong"]))
    /\ batch' = ImpureBatch
    /\ fresh' = FreshAtStart
    /\ UNCHANGED <<users, cookie, files, loggedOut>>

\* ----------------------------------------------------------- clear_history
ClearHistoryStart ==
    /\ Begin(IF require_login(cookie)
             THEN Answer("clear_history", cookie, FALSE, Redirect("login"))
             ELSE Answer("clear_history", session_pop_history(cookie),
                         cookie.hasHistory, Redirect("history")))
    /\ batch' = IF require_login(cookie) THEN ImpureBatch ELSE BatchCleared(BatchAtStart)
    /\ fresh' = NotFresh
    /\ UNCHANGED <<users, cookie, files, loggedOut>>

\* ---------------------------------------------------------------- diagnose
\* The record diagnose appends to the history.
history_record(filename, prediction, confidence, image_url) ==
    [filename |-> filename, prediction |-> prediction, confidence |-> confidence,
     image_url |-> image_url]

\* Faulty variant: the extension is not looked at.
upload_accepted_any(file) == file_truthy(file) /\ file.filename # <<>>

\* file and file.filename != "" and allowed_file(file.filename)
upload_accepted(file) ==
    file_truthy(file) /\ file.filename # <<>> /\ allowed_file(file.filename)

\* The answer of diagnose, with the file of the request (line 131; NoFile
\* when the request did not get that far) and the steps it went through.
AnswerDiagnose(file, trace, sess, modified, resp) ==
    [kind |-> "diagnose", pc |-> "respond", resp |-> resp,
     set_cookie |-> IF modified THEN <<sess>> ELSE <<>>, file |-> file,
     trace |-> trace]

\* The gate, the method test and the validation of the upload (lines 122-133).
DiagnoseStart(method, file) ==
    /\ Len(session_get_history(cookie)) < MaxHistory
    /\ LET accepted == ~require_login(cookie) /\ method = "POST" /\ upload_accepted(file)
       IN  /\ Begin(IF require_login(cookie)
                    THEN AnswerDiagnose(NoFile, <<>>, cookie, FALSE, Redirect("login"))
                    ELSE IF method = "GET"
                    THEN AnswerDiagnose(NoFile, <<>>, cookie, FALSE,
                                        RenderDiagnose(None, NoneNum, NoneUrl))
                    ELSE IF accepted
                    THEN [kind |-> "diagnose", pc |-> "save", sess |-> cookie,
                          file |-> file,
                          filename |-> secure_filename(file.filename),
                          trace |-> <<"validate">>]
                    ELSE AnswerDiagnose(file, <<"validate">>, cookie, FALSE,
                                        RenderDiagnose(None, NoneNum, NoneUrl)))
           /\ batch' = IF accepted THEN BatchAtStart ELSE ImpureBatch
           /\ fresh' = IF accepted THEN FreshAccepted(FreshAtStart, file)
                       ELSE FreshAtStart
    /\ UNCHANGED <<users, cookie, files, loggedOut>>

\* file.save(os.path.join(UPLOAD_FOLDER, filename)): an empty name is the
\* upload folder itself, and opening it for writing raises.
DiagnoseSave(r) ==
    /\ r.kind = "diagnose"
    /\ r.pc = "save"
    /\ IF r.filename = <<>>
       THEN /\ Continue(r, AnswerDiagnose(r.file, Append(r.trace, "save_raised"),
                                          r.sess, FALSE, ServerError))
            /\ batch' = ImpureBatch
            /\ fresh' = FreshEnded(fresh, FALSE)
            /\ UNCHANGED files
       ELSE /\ files' = [n \in DOMAIN files \cup {r.filename} |->
                            IF n = r.filename THEN r.file.content ELSE files[n]]
            /\ Continue(r, [kind |-> "diagnose", pc |-> "classify", sess |-> r.sess,
                            file |-> r.file, filename |-> r.filename,
                            trace |-> Append(r.trace, "save")])
            /\ UNCHANGED <<batch, fresh>>
    /\ UNCHANGED <<users, cookie, loggedOut>>

\* Faulty variant: the record is put in front of the history.
append_history_front(s, record) ==
    session_set_history(s, <<record>> \o session_get_history(s))

\* history = session.get("history", []); history.append(...);
\* session["history"] = history
append_history(s, record) ==
    session_set_history(s, Append(session_get_history(s), record))

\* Faulty variant: model.predict outside the try, its error leaves the view.
diagnose_result_uncaught(sess, filename, stored, raises) ==
    LET preds == predict(stored)
        prediction == class_names[np_argmax(preds)]
        confidence == round2(np_max(preds))
        image_url == static_url(filename)
        record == history_record(filename, prediction, confidence, image_url)
    IN  IF stored \notin Images
        THEN [steps |-> <<"prepare_raised">>, sess |-> sess, modified |-> FALSE,
              resp |-> ServerError]
        ELSE IF raises
        THEN [steps |-> <<"prepare", "predict_raised">>, sess |-> sess,
              modified |-> FALSE, resp |-> ServerError]
        ELSE [steps |-> <<"prepare", "predict", "append">>,
              sess |-> append_history(sess, record), modified |-> TRUE,
              resp |-> RenderDiagnose(prediction, confidence, image_url)]

\* Faulty variant: a failed model.predict is tried once more.
diagnose_result_retry(sess, filename, stored, raises) ==
    LET preds == predict(stored)
        prediction == class_names[np_argmax(preds)]
        confidence == round2(np_max(preds))
        image_url == static_url(filename)
        record == history_record(filename, prediction, confidence, image_url)
    IN  IF stored \notin Images
        THEN [steps |-> <<"prepare_raised">>, sess |-> sess, modified |-> FALSE,
              resp |-> ServerError]
        ELSE [steps |-> IF raises
                        THEN <<"prepare", "predict_raised", "predict", "append">>
                        ELSE <<"prepare", "predict", "append">>,
              sess |-> append_history(sess, record), modified |-> TRUE,
              resp |-> RenderDiagnose(prediction, confidence, image_url)]

\* Lines 137-157 on the stored file: prepare_image reads it outside the try,
\* so an unreadable file raises out of the view; model.predict may raise,
\* which the except clause turns into the sentinel; otherwise the result is
\* appended to the history.
diagnose_result(sess, filename, stored, raises) ==
    LET preds == predict(stored)
        prediction == class_names[np_argmax(preds)]
        confidence == round2(np_max(preds))
        image_url == static_url(filename)
        record == history_record(filename, prediction, confidence, image_url)
    IN  IF stored \notin Images
        THEN [steps |-> <<"prepare_raised">>, sess |-> sess, modified |-> FALSE,
              resp |-> ServerError]
        ELSE IF raises
        THEN [steps |-> <<"prepare", "predict_raised">>, sess |-> sess,
              modified |-> FALSE, resp |-> RenderDiagnose("Error", 0, NoneUrl)]
        ELSE [steps |-> <<"prepare", "predict", "append">>,
              sess |-> append_history(sess, record), modified |-> TRUE,
              resp |-> RenderDiagnose(prediction, confidence, image_url)]

Recorded(res) == res.modified

DiagnoseClassify(r, raises) ==
    /\ r.kind = "diagnose"
    /\ r.pc = "classify"
    /\ LET res == diagnose_result(r.sess, r.filename, files[r.filename], raises)
       IN  /\ Continue(r, AnswerDiagnose(r.file, r.trace \o res.steps, res.sess,
                                         res.modified, res.resp))
           /\ batch' = IF Recorded(res)
                       THEN BatchRecorded(batch, res.sess.history[Len(res.sess.history)])
                       ELSE ImpureBatch
           /\ fresh' = FreshEnded(fresh, Recorded(res))
    /\ UNCHANGED <<users, cookie, files, loggedOut>>

\* ---------------------------------------------------------------- response
\* The browser stores the cookie the response carries, if it carries one.
saved_cookie(r, old) == IF r.set_cookie # <<>> THEN r.set_cookie[1] ELSE old

LoginSucceeded(r) == r.kind = "login" /\ r.pc = "respond" /\ r.resp = Redirect("index")

\* The answer of a logout that removed a user or a history from the session.
LoggedOut(r) == r.kind = "logout" /\ r.pc = "respond" /\ r.set_cookie # <<>>

Respond(r) ==
    /\ r.pc = "respond"
    /\ cookie' = saved_cookie(r, cookie)
    /\ End(r)
    /\ loggedOut' = IF LoggedOut(r) THEN TRUE
                    ELSE IF LoginSucceeded(r) THEN FALSE
                    ELSE loggedOut
    /\ fresh' = IF LoginSucceeded(r)
                THEN IF BagCardinality(reqs) = 1
                        /\ session_get_history(r.set_cookie[1]) = <<>>
                     THEN [ok |-> TRUE, log |-> <<>>, pending |-> <<>>]
                     ELSE NotFresh
                ELSE fresh
    /\ UNCHANGED <<users, files, batch>>

\* ----------------------------------------------------------- specification
\* The whole program.
Signup == \E m \in Methods, u \in UsernameInputs, p \in PasswordInputs, s \in Salts :
             SignupStart(m, u, p, s)
SignupDb == \E r \in InFlight : SignupInsert(r)
Login == \E m \in Methods, u \in UsernameInputs, p \in PasswordInputs :
            LoginStart(m, u, p)
LoginDb == \E r \in InFlight : LoginCheck(r)
Logout == LogoutStart
Index == IndexStart
Info == \E d \in Diseases : InfoStart(d)
History == HistoryStart
Public == \E k \in {"about", "ping"} : PublicStart(k)
ClearHistory == ClearHistoryStart
Diagnose == \E m \in Methods, f \in Uploads : DiagnoseStart(m, f)
DiagnoseFile == \E r \in InFlight : DiagnoseSave(r)
DiagnoseModel == \E r \in InFlight, raises \in BOOLEAN : DiagnoseClassify(r, raises)
Response == \E r \in InFlight : Respond(r)

Next ==
    \/ Signup \/ SignupDb \/ Login \/ LoginDb \/ Logout
    \/ Index \/ Info \/ History \/ Public \/ ClearHistory
    \/ Diagnose \/ DiagnoseFile \/ DiagnoseModel
    \/ Response

Spec == Init /\ [][Next]_vars

\* The accounts: the signup and login forms and logout, on an empty users
\* table, requests overlapping.  The hashes of this specification share one
\* salt (the table of SpecSession and SpecSequential holds two).
SignupPost == \E u \in UsernameInputs, p \in PasswordInputs :
                 SignupStart("POST", u, p, "s1")
LoginPost == \E u \in UsernameInputs, p \in PasswordInputs : LoginStart("POST", u, p)

NextAccounts == SignupPost \/ SignupDb \/ LoginPost \/ LoginDb \/ Logout \/ Response

SpecAccounts == Init /\ [][NextAccounts]_vars

\* The signup form alone, on an empty users table, requests overlapping, the
\* hashes with every salt.
NextSignup == Signup \/ SignupDb \/ Response

SpecSignup == Init /\ [][NextSignup]_vars

\* The upload form of a logged-in session, one request after another, with
\* uploads under many names, into the empty upload folder.
DiagnoseU == \E f \in NamedUploads : DiagnoseStart("POST", f)

NextUpload ==
    \/ Quiescent /\ files = <<>> /\ DiagnoseU
    \/ DiagnoseFile
    \/ DiagnoseModel
    \/ Response

\* The users table holding two accounts registered earlier (users.db outlives
\* the process).
Registered ==
    << [id |-> 1, username |-> <<"a">>, password |-> bcrypt_hash(<<"p">>, "s1")],
       [id |-> 2, username |-> <<"b">>, password |-> bcrypt_hash(<<"q">>, "s2")] >>

InitSession ==
    /\ users = Registered
    /\ cookie = EmptySession
    /\ files = <<>>
    /\ reqs = EmptyBag
    /\ batch = ImpureBatch
    /\ fresh = NotFresh
    /\ loggedOut = FALSE

\* User a has logged in.
InitUpload ==
    /\ users = Registered
    /\ cookie = login_session(EmptySession, <<"a">>)
    /\ files = <<>>
    /\ reqs = EmptyBag
    /\ batch = ImpureBatch
    /\ fresh = NotFresh
    /\ loggedOut = FALSE

SpecUpload == InitUpload /\ [][NextUpload]_vars

\* The session of one browser, requests overlapping.
SessionLogins == { <<<<"a">>, <<"p">>>>, <<<<"b">>, <<"q">>>>, <<<<"a">>, <<"q">>>> }

SessionUploads ==
    { f \in Uploads : f.filename \in { <<"a", ".", "j", "p", "g">>,
                                       <<"a", ".", "e", "x", "e">> }
                      /\ f.content \in {"leafA", "leafB", "junk"} }

LoginS == \E c \in SessionLogins : LoginStart("POST", c[1], c[2])
DiagnoseS == \E f \in SessionUploads : DiagnoseStart("POST", f)

NextSession ==
    \/ LoginS \/ LoginDb \/ Logout \/ History \/ ClearHistory
    \/ DiagnoseS \/ DiagnoseFile \/ DiagnoseModel
    \/ Response

SpecSession == InitSession /\ [][NextSession]_vars

\* The session of one browser, one request after another: every view but
\* signup, with every input.
NextSequential ==
    \/ Quiescent /\ Login
    \/ LoginDb
    \/ Quiescent /\ Logout
    \/ Quiescent /\ Index
    \/ Quiescent /\ Info
    \/ Quiescent /\ History
    \/ Quiescent /\ Public
    \/ Quiescent /\ ClearHistory
    \/ Quiescent /\ Diagnose
    \/ DiagnoseFile
    \/ DiagnoseModel
    \/ Response

SpecSequential == InitSession /\ [][NextSequential]_vars

\* ================================================================== claims
Answered(r) == r.pc = "respond"

\* C1: when the requests that ran since the session was last at rest were N
\* diagnose requests that each classified successfully, overlapping in any
\* way, the history holds exactly N records more than before.
C1_NoRecordLost ==
    (Quiescent /\ batch.pure /\ batch.cleared = 0)
        => Len(session_get_history(cookie)) = Len(batch.base) + Len(batch.log)

RecordFields(rec) ==
    [filename |-> rec.filename, prediction |-> rec.prediction,
     confidence |-> rec.confidence]

\* C2: after a login that leaves the history empty, N successful diagnoses made
\* one after another leave a history of exactly N records, in the order of the
\* requests, each with the sanitized name of the file uploaded by its request
\* and the prediction and confidence of the content uploaded by it.
C2_SequentialHistory ==
    (Quiescent /\ fresh.ok)
        => /\ cookie.hasHistory
           /\ Len(cookie.history) = Len(fresh.log)
           /\ \A k \in 1..Len(fresh.log) : RecordFields(cookie.history[k]) = fresh.log[k]

\* Two diagnoses with different outcomes were made in a row after a login.
C2_Witness ==
    /\ Quiescent
    /\ fresh.ok
    /\ Len(fresh.log) = 2
    /\ fresh.log[1] # fresh.log[2]

\* C3: the session a successful login answers with has an empty history.
C3_LoginHistoryEmpty ==
    \A r \in InFlight :
        LoginSucceeded(r)
            => /\ r.set_cookie # <<>>
               /\ r.set_cookie[1].hasHistory
               /\ r.set_cookie[1].history = <<>>

\* The page of the except branch: prediction "Error", confidence 0, no image.
Sentinel == RenderDiagnose("Error", 0, NoneUrl)

HasStep(r, step) == \E k \in 1..Len(r.trace) : r.trace[k] = step

ClassifierRaised(r) == r.kind = "diagnose" /\ Answered(r) /\ HasStep(r, "predict_raised")

\* C4: a diagnose request whose classifier call raised is answered with the
\* rendered page holding prediction "Error" and confidence 0 (not with the
\* error), and answering it leaves the session, its history included, as it
\* was.
C4_ClassifierErrorSentinel ==
    [][\A r \in InFlight :
          (ClassifierRaised(r) /\ Respond(r))
              => r.resp = Sentinel /\ cookie' = cookie]_vars

\* The classifier raised on an accepted upload of a session with a history.
C4_Witness ==
    /\ cookie.history # <<>>
    /\ \E r \in InFlight : ClassifierRaised(r)

StepRaised(r) ==
    \E step \in {"save_raised", "prepare_raised", "predict_raised"} : HasStep(r, step)

\* C5: no diagnose request ends with an unhandled error; one in which a step
\* between accepting the file and the classification raised is answered with
\* the sentinel.
C5_NoUnhandledError ==
    \A r \in InFlight :
        (r.kind = "diagnose" /\ Answered(r))
            => /\ r.resp # ServerError
               /\ StepRaised(r) => r.resp = Sentinel

\* C6: when the requests that ran since the session was last at rest were one
\* successful diagnose and one clear_history, overlapping, the history is
\* empty or holds exactly the new record.
C6_AppendClearSerialized ==
    (Quiescent /\ batch.pure /\ batch.cleared = 1 /\ Len(batch.log) = 1)
        => session_get_history(cookie) \in {<<>>, batch.log}

\* C7: from the completion of a logout (of a session that held a user or a
\* history) until a login succeeds, the session holds neither a user nor a
\* history, whatever requests were in flight meanwhile, so that the gate of every protected
\* route answers with the redirect to login.
C7_LoggedOutStays ==
    loggedOut => ~cookie.hasUser /\ ~cookie.hasHistory /\ require_login(cookie)

\* The requests that a step put in flight (started, or moved on to).
NewRequests == { q \in BagToSet(reqs') : CopiesIn(q, reqs') > CopiesIn(q, reqs) }

\* The step put one more request in flight.
Started == BagCardinality(reqs') = BagCardinality(reqs) + 1

IsRegistered(table, username) == \E k \in 1..Len(table) : table[k].username = username

\* The password a row was registered with.
RegisteredPassword(row) == row.password.digest[2]

InvalidCredentials == RenderForm("login.html", "Invalid credentials")
DuplicateUsername == RenderForm("signup.html", "Username already exists")
MissingField == RenderForm("signup.html", "Username and password required")

\* The answer a login is to get for the credentials (username, password): the
\* session with that user when they are the registered ones, else the error
\* and no change of the session.
LoginAnsweredFor(q, username, password) ==
    IF \E k \in 1..Len(users) : /\ users[k].username = username
                                /\ RegisteredPassword(users[k]) = password
    THEN /\ LoginSucceeded(q)
         /\ q.set_cookie # <<>>
         /\ q.set_cookie[1].hasUser
         /\ q.set_cookie[1].user = username
    ELSE /\ q.kind = "login" /\ Answered(q)
         /\ q.resp = InvalidCredentials
         /\ q.set_cookie = <<>>

\* C8, as stated: the login form logs in exactly when the submitted username is
\* registered and the submitted password is the one registered for it, and the
\* session user is then the submitted username; otherwise the session is left
\* as it was.
C8_LoginExactlyRegistered ==
    [][\A r \in InFlight :
          LoginCheck(r)
              => \A q \in NewRequests :
                    LoginAnsweredFor(q, r.form.username, r.form.password)]_vars

\* C8, as amended: the same of the submitted username and password with
\* surrounding whitespace removed.
C8_LoginExactlyRegisteredStripped ==
    [][\A r \in InFlight :
          LoginCheck(r)
              => \A q \in NewRequests :
                    LoginAnsweredFor(q, strip(r.form.username),
                                     strip(r.form.password))]_vars

\* A login that succeeded and one that was refused, on a table with a user.
C8_Witness ==
    /\ users # <<>>
    /\ \E r \in InFlight : LoginSucceeded(r)
    /\ \E r \in InFlight : r.kind = "login" /\ Answered(r) /\ r.resp = InvalidCredentials

\* C9, as stated: a signup with a registered username ends with the
\* DuplicateUsername error and leaves the users table as it was.
C9_DuplicateSignup ==
    [][/\ \A u \in UsernameInputs, p \in PasswordInputs, s \in Salts :
             (Started /\ IsRegistered(users, u) /\ SignupStart("POST", u, p, s))
                 => /\ users' = users
                    /\ \A q \in NewRequests : Answered(q) => q.resp = DuplicateUsername
       /\ \A r \in InFlight :
             (SignupInsert(r) /\ IsRegistered(users, r.username))
                 => /\ users' = users
                    /\ \A q \in NewRequests : Answered(q) /\ q.resp = DuplicateUsername
      ]_vars

\* C9, as amended: a signup with a registered username (surrounding whitespace
\* removed) leaves the users table as it was; it ends with the
\* DuplicateUsername error when its password is not blank, and with the
\* missing-field error when it is.
C9_DuplicateSignupNonBlank ==
    [][/\ \A u \in UsernameInputs, p \in PasswordInputs, s \in Salts :
             (Started /\ IsRegistered(users, strip(u)) /\ SignupStart("POST", u, p, s))
                 => /\ users' = users
                    /\ \A q \in NewRequests :
                          IF strip(p) = <<>>
                          THEN Answered(q) /\ q.resp = MissingField
                          ELSE ~Answered(q)
       /\ \A r \in InFlight :
             (SignupInsert(r) /\ IsRegistered(users, r.username))
                 => /\ users' = users
                    /\ \A q \in NewRequests : Answered(q) /\ q.resp = DuplicateUsername
      ]_vars

\* A signup with a registered username was answered with the error.
C9_Witness ==
    /\ Len(users) = 1
    /\ \E r \in InFlight : r.kind = "signup" /\ Answered(r) /\ r.resp = DuplicateUsername

UniqueUsernames(table) ==
    \A j, k \in 1..Len(table) : table[j].username = table[k].username => j = k

\* C10: whatever the interleaving of the signups, the INSERT of a signup
\* succeeds exactly when no row has its username yet, the others are answered
\* with DuplicateUsername, and no two rows of the table share a username.
C10_OneSignupWins ==
    [][\A r \in InFlight :
          SignupInsert(r)
              => /\ UniqueUsernames(users')
                 /\ \A q \in NewRequests :
                       /\ Answered(q)
                       /\ q.resp = IF IsRegistered(users, r.username)
                                   THEN DuplicateUsername
                                   ELSE Redirect("login")
                 /\ Len(users') = IF IsRegistered(users, r.username)
                                  THEN Len(users) ELSE Len(users) + 1]_vars

\* Two overlapping signups with one username: one was answered with the
\* redirect, the other with the error, and the table holds the one row.
C10_Witness ==
    /\ Len(users) = 1
    /\ \E r \in InFlight : r.kind = "signup" /\ Answered(r) /\ r.resp = Redirect("login")
    /\ \E r \in InFlight : r.kind = "signup" /\ Answered(r) /\ r.resp = DuplicateUsername

\* The kinds of the requests to the protected routes.
ProtectedKinds == {"index", "diagnose", "info", "history", "clear_history"}

\* C11: a request to a protected route whose session has no user is answered
\* with the redirect to login and changes nothing: no file is stored, the
\* request went through no step of the diagnosis (no validation, no save, no
\* classifier call), its response carries no session, and delivering it
\* leaves the session as it was.
C11_GateChangesNothing ==
    [][/\ (Started /\ ~cookie.hasUser)
            => \A q \in NewRequests :
                  q.kind \in ProtectedKinds
                     => /\ Answered(q)
                        /\ q.resp = Redirect("login")
                        /\ q.set_cookie = <<>>
                        /\ q.kind = "diagnose" => q.trace = <<>>
                        /\ files' = files
                        /\ cookie' = cookie
                        /\ users' = users
       /\ \A r \in InFlight :
             (r.kind \in ProtectedKinds /\ Answered(r) /\ r.resp = Redirect("login")
                 /\ Respond(r))
                => cookie' = cookie /\ files' = files /\ users' = users
      ]_vars

\* A diagnose request of a session without a user was turned away, after
\* an earlier session had stored an upload.
C11_Witness ==
    /\ ~cookie.hasUser
    /\ files # <<>>
    /\ \E r \in InFlight :
          r.kind = "diagnose" /\ Answered(r) /\ r.resp = Redirect("login")

\* The request r is classified in this step.
Classified(r) == \E raises \in BOOLEAN : DiagnoseClassify(r, raises)

\* C12: clear_history on a session with a user is answered with the redirect
\* to the history page and leaves the session with the same user and an empty
\* history; on the session it leaves, /history renders the empty list and a
\* successful diagnose leaves the same user and a history of exactly its own
\* record.
C12_ClearKeepsSession ==
    [][/\ (Started /\ cookie.hasUser)
            => \A q \in NewRequests :
                  q.kind = "clear_history"
                     => /\ Answered(q)
                        /\ q.resp = Redirect("history")
                        /\ saved_cookie(q, cookie).hasUser
                        /\ saved_cookie(q, cookie).user = cookie.user
                        /\ session_get_history(saved_cookie(q, cookie)) = <<>>
       /\ \A r \in InFlight :
             (r.kind = "clear_history" /\ Answered(r) /\ r.resp = Redirect("history")
                 /\ Respond(r))
                => /\ cookie'.hasUser
                   /\ cookie'.user = cookie.user
                   /\ session_get_history(cookie') = <<>>
       /\ (Started /\ cookie.hasUser /\ ~cookie.hasHistory)
            => \A q \in NewRequests :
                  q.kind = "history" => q.resp = RenderHistory(<<>>)
       /\ \A r \in InFlight :
             (r.kind = "diagnose" /\ r.pc = "classify"
                 /\ r.sess.hasUser /\ ~r.sess.hasHistory /\ Classified(r))
                => \A q \in NewRequests :
                      HasStep(q, "append")
                         => /\ q.set_cookie # <<>>
                            /\ q.set_cookie[1].hasUser
                            /\ q.set_cookie[1].user = r.sess.user
                            /\ Len(session_get_history(q.set_cookie[1])) = 1
                            /\ RecordFields(q.set_cookie[1].history[1])
                                  = expected_record(r.file)
      ]_vars

\* After a clear_history (the session has a user and no history key) a
\* diagnose succeeded and is answered with a history of its one record.
C12_Witness ==
    /\ cookie.hasUser
    /\ ~cookie.hasHistory
    /\ \E r \in InFlight :
          /\ r.kind = "diagnose" /\ Answered(r) /\ HasStep(r, "append")
          /\ Len(r.set_cookie[1].history) = 1

\* Validation rejects the upload: no file, an empty filename, or an extension
\* that is not allowed.
Rejected(file) ==
    \/ ~file.present
    \/ file.filename = <<>>
    \/ ~allowed_file(file.filename)

\* The page of diagnose with no prediction, no confidence and no image.
NoResult == RenderDiagnose(None, NoneNum, NoneUrl)

\* C13: a POST /diagnose of a session with a user whose upload validation
\* rejects is answered with the page holding no prediction, no confidence
\* and no image; no file is written, the request goes through no step after
\* the validation (no save, no classifier call), and the session is left as
\* it was, by the request and by the delivery of its response.
C13_RejectedChangesNothing ==
    [][/\ (Started /\ cookie.hasUser)
            => \A q \in NewRequests :
                  (q.kind = "diagnose" /\ q.trace # <<>> /\ Rejected(q.file))
                     => /\ Answered(q)
                        /\ q.resp = NoResult
                        /\ q.trace = <<"validate">>
                        /\ q.set_cookie = <<>>
                        /\ files' = files
                        /\ cookie' = cookie
                        /\ users' = users
       /\ \A r \in InFlight :
             (r.kind = "diagnose" /\ Answered(r) /\ r.trace = <<"validate">>
                 /\ Respond(r))
                => cookie' = cookie /\ files' = files /\ users' = users
      ]_vars

\* An upload with a disallowed extension was rejected on a session that has a
\* history and stored files.
C13_Witness ==
    /\ cookie.hasUser
    /\ cookie.history # <<>>
    /\ files # <<>>
    /\ \E r \in InFlight :
          /\ r.kind = "diagnose" /\ Answered(r) /\ r.trace = <<"validate">>
          /\ r.file.present /\ r.file.filename # <<>>

\* The request went past the validation of its upload.
Accepted(r) == r.kind = "diagnose" /\ ~(Answered(r) /\ r.trace = <<"validate">>)

\* The name is not empty, has a dot, and what follows its last dot is, in
\* lower case, png, jpg or jpeg.
AcceptableName(name) ==
    /\ name # <<>>
    /\ \E k \in 1..Len(name) :
          /\ name[k] = "."
          /\ \A j \in (k + 1)..Len(name) : name[j] # "."
          /\ lower(SubSeq(name, k + 1, Len(name)))
                \in { <<"p", "n", "g">>, <<"j", "p", "g">>, <<"j", "p", "e", "g">> }

\* C14: the validation lets the upload of a POST /diagnose through exactly
\* when its filename is not empty, contains a dot, and its last dot-delimited
\* segment is png, jpg or jpeg in any case.
C14_ValidationByExtension ==
    \A r \in InFlight :
        (r.kind = "diagnose" /\ r.trace # <<>> /\ r.file.present)
            => (Accepted(r) <=> AcceptableName(r.file.filename))

\* An upload named a.JPG went past the validation.
C14_Witness ==
    \E r \in InFlight :
        /\ r.kind = "diagnose" /\ r.pc = "save"
        /\ r.file.filename = <<"a", ".", "J", "P", "G">>

\* C15: an upload whose file has empty content is rejected by the validation,
\* whatever its filename: the request goes no further than the validation and
\* no empty file is stored.
C15_EmptyContentRejected ==
    /\ \A r \in InFlight :
          (r.kind = "diagnose" /\ r.trace # <<>> /\ r.file.present
              /\ r.file.content = "empty")
             => ~Accepted(r)
    /\ \A n \in DOMAIN files : files[n] # "empty"

\* The login r in flight names no registered user.
UnknownUser(r) == ~IsRegistered(users, r.username)

\* The login r in flight names a registered user with another password.
WrongPassword(r) ==
    /\ IsRegistered(users, r.username)
    /\ \A k \in 1..Len(users) :
          users[k].username = r.username => RegisteredPassword(users[k]) # r.password

\* The one answer of a failed login: the error, and no session.
FailedLogin ==
    [kind |-> "login", pc |-> "respond", resp |-> InvalidCredentials,
     set_cookie |-> <<>>]

\* C16: a login that fails for an unregistered username and one that fails for
\* a wrong password get the same answer, the login page with the one error
\* and no session, and delivering it leaves the session as it was.
C16_FailedLoginsAlike ==
    [][/\ \A r \in InFlight :
             (r.kind = "login" /\ r.pc = "select" /\ (UnknownUser(r) \/ WrongPassword(r))
                 /\ LoginCheck(r))
                => \A q \in NewRequests : q = FailedLogin
       /\ (FailedLogin \in InFlight /\ Respond(FailedLogin)) => cookie' = cookie
      ]_vars

\* A failed login is answered, and a login with a registered username and a
\* wrong password is in flight, on a table that lacks some of the usernames.
C16_Witness ==
    /\ Len(users) = 1
    /\ FailedLogin \in InFlight
    /\ \E r \in InFlight : r.kind = "login" /\ r.pc = "select" /\ WrongPassword(r)

\* The session holds neither a user nor a history.
NoSession(s) == ~s.hasUser /\ ~s.hasHistory

\* C17: a logout is always answered with the redirect to login and leaves a
\* session with neither user nor history; on a session that has neither it
\* carries no session and leaves the state as it was, so a second logout in a
\* row changes nothing.
C17_LogoutIdempotent ==
    [][/\ Started
            => \A q \in NewRequests :
                  q.kind = "logout"
                     => /\ Answered(q)
                        /\ q.resp = Redirect("login")
                        /\ NoSession(saved_cookie(q, cookie))
                        /\ logout_session(saved_cookie(q, cookie)) = saved_cookie(q, cookie)
                        /\ NoSession(cookie) => q.set_cookie = <<>>
                        /\ cookie' = cookie /\ users' = users /\ files' = files
       /\ \A r \in InFlight :
             (r.kind = "logout" /\ Answered(r) /\ Respond(r))
                => /\ NoSession(cookie')
                   /\ NoSession(cookie) => cookie' = cookie
                   /\ users' = users /\ files' = files
      ]_vars

\* A second logout, after one that ended a session, is answered.
C17_Witness ==
    /\ loggedOut
    /\ NoSession(cookie)
    /\ \E r \in InFlight : r.kind = "logout" /\ Answered(r) /\ r.set_cookie = <<>>

\* A name that, joined to the upload folder, is a file directly inside it.
SafeName(name) ==
    /\ name # <<>>
    /\ ~Contains(name, "/")
    /\ name \notin { <<".">>, <<".", ".">> }

\* C18: every file in the upload folder is stored under a name that is not
\* empty, has no path separator and is not "." or ".."; the name an accepted
\* upload is stored under is the sanitized form of the name the client sent,
\* and no save fails for want of a name.
C18_StoredNameSafe ==
    /\ \A n \in DOMAIN files : SafeName(n)
    /\ \A r \in InFlight :
          r.kind = "diagnose"
             => /\ r.pc \in {"save", "classify"}
                   => /\ SafeName(r.filename)
                      /\ r.filename = secure_filename(r.file.filename)
                /\ r.pc = "classify" => r.filename \in DOMAIN files
                /\ ~HasStep(r, "save_raised")

\* An upload sent under the name ../.jpg is stored.
C18_Witness ==
    /\ files # <<>>
    /\ \E r \in InFlight :
          /\ r.kind = "diagnose" /\ r.pc = "classify"
          /\ r.file.filename = <<".", ".", "/", ".", "j", "p", "g">>

\* C19: whatever requests overlap, a diagnose request classifies the image it
\* uploaded itself: the record it appends and the page it is answered with
\* hold the prediction and confidence of its own upload, and it fails on
\* reading the image only when its own upload is unreadable.
C19_ClassifiesOwnUpload ==
    \A r \in InFlight :
        (r.kind = "diagnose" /\ Answered(r))
            => /\ HasStep(r, "append")
                  => /\ RecordFields(r.set_cookie[1].history[Len(r.set_cookie[1].history)])
                          = expected_record(r.file)
                     /\ r.resp.prediction = expected_record(r.file).prediction
                     /\ r.resp.confidence = expected_record(r.file).confidence
               /\ HasStep(r, "prepare_raised") => r.file.content \in Unreadable

\* The positions of a step in the trace of a request.
StepsAt(r, step) == { k \in 1..Len(r.trace) : r.trace[k] = step }

\* The positions at which the classifier was called.
Calls(r) == StepsAt(r, "predict") \cup StepsAt(r, "predict_raised")

\* The steps of the request are in order: a save only after the validation
\* accepted the file, a classifier call only after the save, at most one
\* call, an append only after a call that returned, at most one append.
InOrder(r) ==
    /\ \A k \in StepsAt(r, "save") :
          /\ \E j \in StepsAt(r, "validate") : j < k
          /\ AcceptableName(r.file.filename)
    /\ \A k \in Calls(r) : \E j \in StepsAt(r, "save") : j < k
    /\ Cardinality(Calls(r)) <= 1
    /\ \A k \in StepsAt(r, "append") : \E j \in StepsAt(r, "predict") : j < k
    /\ Cardinality(StepsAt(r, "append")) <= 1

\* C20: in every diagnose request of a session with a user the steps happen
\* in the order validate, save, classify, append: the classifier is called
\* only after the validation accepted the file and the file was saved, at
\* most once, and the history grows by one record exactly when the call
\* returned, and not at all otherwise.
C20_StepsInOrder ==
    [][/\ \A q \in NewRequests : q.kind = "diagnose" => InOrder(q)
       /\ \A r \in InFlight :
             (r.kind = "diagnose" /\ r.pc = "classify" /\ Classified(r))
                => \A q \in NewRequests :
                      IF HasStep(q, "predict")
                      THEN /\ HasStep(q, "append")
                           /\ q.set_cookie # <<>>
                           /\ Len(session_get_history(q.set_cookie[1]))
                                 = Len(session_get_history(r.sess)) + 1
                      ELSE /\ ~HasStep(q, "append")
                           /\ q.set_cookie = <<>>
      ]_vars

\* A diagnosis on a session with a history of one record went through all
\* four steps.
C20_Witness ==
    \E r \in InFlight :
        /\ r.kind = "diagnose" /\ Answered(r)
        /\ r.trace = <<"validate", "save", "prepare", "predict", "append">>
        /\ Len(r.set_cookie[1].history) = 2

====
